---------------------------- MODULE Spec2Model ----------------------------
(***************************************************************************)
(* Model of stock_dashboard.py: a Streamlit script that is re-run from top *)
(* to bottom on every user interaction (a "pass").  The only state that    *)
(* survives a pass is held by the two st.cache_data(ttl=3600) memo tables. *)
(*                                                                         *)
(* A DataFrame is a record [index, col]: index is the sequence of dates,   *)
(* col maps a column name to its sequence of values.  Prices are integers; *)
(* every quotient the script computes is kept as an exact fraction         *)
(* [num, den], and NaN is the fraction 0/0.  Text that the script searches *)
(* character by character is a sequence of one-character strings.         *)
(***************************************************************************)
EXTENDS Integers, Sequences, FiniteSets, TLC

VARIABLES
    now,               \* wall clock, seconds
    nseCache,          \* memo of get_nse_data(): <<>> or <<[value, ts]>>
    stockCache,        \* memo of get_stock_data: key -> <<>> or <<[value, ts]>>
    pc,                \* position of the running pass
    passes,            \* passes started so far
    faults,            \* unusable remote answers handed out so far
    nse_data, card,    \* line 20, lines 25-46
    selected_stock, time_period,          \* lines 59-63
    df, stock_info, metrics,              \* line 73, lines 116-124
    nifty_data, normalized_stock, normalized_nifty,   \* lines 147-152
    i, fig_top5,       \* loop position and traces of lines 168-174
    user_question, answer, sidebar,       \* lines 189-201
    error,             \* text handed to st.error, "" when none
    remoteCalls,       \* history: remote requests issued by the current pass
    lastCall,          \* history: the latest get_stock_data call of the pass
    origin,            \* history: key -> what the remote returned last, and when
    received,          \* history: series received by the current pass, per site
    computed,          \* history: series the pass has done arithmetic on
    prevPass           \* history: the latest pass that ran to its end, once
                       \* the next pass has started

cacheVars == <<nseCache, stockCache, origin>>
inputVars == <<selected_stock, time_period, user_question>>
nseVars   == <<nse_data, card>>
stockVars == <<df, stock_info, metrics>>
niftyVars == <<nifty_data, normalized_stock, normalized_nifty>>
top5Vars  == <<i, fig_top5>>
qaVars    == <<answer, sidebar>>
histVars  == <<remoteCalls, lastCall, received, computed, prevPass>>
vars == <<now, pc, passes, faults, error, cacheVars, inputVars, nseVars,
          stockVars, niftyVars, top5Vars, qaVars, histVars>>

---------------------------------------------------------------------------
(* Program constants *)

TTL == 3600

top_stocks ==
    << "RELIANCE.NS", "TCS.NS", "HDFCBANK.NS", "INFY.NS", "ICICIBANK.NS",
       "HINDUNILVR.NS", "ITC.NS", "SBIN.NS", "BHARTIARTL.NS", "HDFC.NS",
       "KOTAKBANK.NS", "LT.NS", "ASIANPAINT.NS", "AXISBANK.NS", "MARUTI.NS" >>

periods == << "1mo", "3mo", "6mo", "1y", "2y", "5y" >>

ma_periods == << 20, 50, 200 >>

top5_stocks == SubSeq(top_stocks, 1, 5)

NSEI == "^NSEI"

---------------------------------------------------------------------------
(* Bounds of the model *)

MaxTicks  == 3     \* the clock stops after this many half-TTLs
MaxPasses == 2     \* passes per behaviour
MaxFaults == 1     \* unusable remote answers per behaviour
MaxScale  == 3     \* largest uniform price scaling tried
MaxSeed   == 4     \* price patterns of the long series

\* The clock moves in halves of the time-to-live
TickLen == TTL \div 2

\* What the user selects in the model: a stock of the top five with the
\* first period, and a stock outside the top five with the second
Selections == { <<top_stocks[1], periods[1]>>, <<top_stocks[6], periods[2]>> }

SelectableStocks == { choice[1] : choice \in Selections }
SelectablePeriods == { choice[2] : choice \in Selections }

Symbols == { top5_stocks[k] : k \in 1..Len(top5_stocks) } \cup SelectableStocks
Keys == Symbols \X SelectablePeriods

\* Questions typed into the sidebar: none, and a few over the letters of the
\* metadata keys, in either case
Questions ==
    { <<>>, <<"b">>, <<"A">>, <<"a", "b">>, <<"B", "A">>, <<"b", "b">>,
      <<"a", "a", "b">> }

---------------------------------------------------------------------------
(* Exact fractions *)

Frac(n, d) == [num |-> n, den |-> d]
NaN == Frac(0, 0)
FracEq(x, y) == x.den # 0 /\ y.den # 0 /\ x.num * y.den = y.num * x.den

---------------------------------------------------------------------------
(* DataFrames *)

EmptyFrame == [index |-> <<>>, col |-> <<>>]

Columns(data) == DOMAIN data.col

\* data['Close']; a missing column is a KeyError, shown here as no values
Column(data, name) ==
    IF name \in Columns(data) THEN data.col[name] ELSE <<>>

Close(data) == Column(data, "Close")
Open(data) == Column(data, "Open")

\* DataFrame.empty: no rows or no columns
IsEmpty(data) == Len(data.index) = 0 \/ Columns(data) = {}

\* s.iloc[0], s.iloc[-1], s.iloc[-2] on a series long enough
First(s) == s[1]
Last(s) == s[Len(s)]
Prev(s) == s[Len(s) - 1]

\* df[name] = values
WithColumn(data, name, values) ==
    [index |-> data.index, col |-> (name :> values) @@ data.col]

---------------------------------------------------------------------------
(* The remote market-data provider (yfinance), as the script sees it *)

\* Position of a ticker in top_stocks; the index ^NSEI counts as 0
SymIdx(symbol) ==
    IF symbol = NSEI THEN 0
    ELSE CHOOSE k \in 1..Len(top_stocks) : top_stocks[k] = symbol

\* Daily records in a window: 2 for "2d", a few more for each longer period
PeriodRows(period) ==
    IF period = "2d" THEN 2
    ELSE 2 + (CHOOSE k \in 1..Len(periods) : periods[k] = period)

\* Close of record k of the window the provider serves at time t
Quote(symbol, period, t, k) ==
    100 + 7 * SymIdx(symbol)
        + ((3 * k + 5 * (t \div TickLen) + 2 * PeriodRows(period)) % 11)

\* Open of record k
OpenQuote(symbol, period, t, k) ==
    Quote(symbol, period, t, k) + ((k + SymIdx(symbol) + (t \div TickLen)) % 3) - 1

\* A well-formed history
History(symbol, period, t) ==
    LET n == PeriodRows(period)
    IN  [index |-> [k \in 1..n |-> t + k],
         col   |-> [c \in {"Open", "Close"} |->
                      [k \in 1..n |-> IF c = "Close"
                                      THEN Quote(symbol, period, t, k)
                                      ELSE OpenQuote(symbol, period, t, k)]]]

\* What a request can come back with: the history, no rows at all, rows
\* without a Close column, or a single record
RemoteAnswer(symbol, period, t, outcome) ==
    LET h == History(symbol, period, t)
    IN  CASE outcome = "ok"      -> h
          [] outcome = "empty"   -> [index |-> <<>>,
                                     col |-> [c \in Columns(h) |-> <<>>]]
          [] outcome = "noclose" -> [index |-> h.index,
                                     col |-> [c \in {"Open"} |-> h.col[c]]]
          [] outcome = "short"   -> [index |-> SubSeq(h.index, 1, 1),
                                     col |-> [c \in Columns(h) |->
                                                SubSeq(h.col[c], 1, 1)]]

RemoteOutcomes ==
    IF faults < MaxFaults THEN {"ok", "empty", "noclose", "short"} ELSE {"ok"}

FaultsAfter(outcome) ==
    IF outcome \in {"hit", "ok"} THEN faults ELSE faults + 1

\* stock.info: an insertion-ordered mapping, as a sequence of <<key, value>>
Info(symbol) ==
    CASE SymIdx(symbol) = 1 ->
            << << <<"A", "b">>, <<"b", "b">> >>,
               << <<"a", "b">>, <<"a">> >>,
               << <<"b", "a">>, <<"A", "b">> >> >>
      [] SymIdx(symbol) = 6 ->
            << << <<"b", "A", "a">>, <<"a", "a">> >>,
               << <<"a", "A">>, <<"b">> >> >>
      [] OTHER -> << >>

---------------------------------------------------------------------------
(* st.cache_data(ttl=3600): the value a function returns is stored with    *)
(* the time of the call, and each caller is handed a copy of its own, so   *)
(* what a pass does to df (line 130) stays in the pass.                    *)

\* Variant: an entry that never expires (the ttl left out)
IsFreshForever(entry, t) == entry # <<>>

\* An entry is served while it is younger than the time-to-live
IsFresh(entry, t) == entry # <<>> /\ t - entry[1].ts < TTL

\* Variant: a memo that keeps usable histories only
MemoizeUsableOnly(value, t) ==
    IF "hist" \in DOMAIN value /\ Len(Column(value.hist, "Close")) < 2
    THEN <<>>
    ELSE << [value |-> value, ts |-> t] >>

\* Every returned value is stored, whatever it holds
Memoize(value, t) == << [value |-> value, ts |-> t] >>

\* get_nse_data(): "hit", or the outcome of the one request it makes
NseOutcomes == IF IsFresh(nseCache, now) THEN {"hit"} ELSE RemoteOutcomes

NseValue(outcome) ==
    IF outcome = "hit" THEN nseCache[1].value
    ELSE RemoteAnswer(NSEI, "2d", now, outcome)

\* get_stock_data(symbol, period)
StockOutcomes(key) ==
    IF IsFresh(stockCache[key], now) THEN {"hit"} ELSE RemoteOutcomes

StockValue(key, outcome) ==
    IF outcome = "hit" THEN stockCache[key][1].value
    ELSE [hist |-> RemoteAnswer(key[1], key[2], now, outcome),
          info |-> Info(key[1])]

Request(fn, symbol, period) ==
    [fn |-> fn, symbol |-> symbol, period |-> period, at |-> now]

\* The call as a whole: the cache, and the history variables that watch it
GetStockData(site, key, outcome) ==
    LET value == StockValue(key, outcome)
        before == origin[key]
    IN  /\ stockCache' =
              IF outcome = "hit" THEN stockCache
              ELSE [stockCache EXCEPT ![key] = Memoize(value, now)]
        /\ origin' =
              IF outcome = "hit" THEN origin
              ELSE [origin EXCEPT ![key] = << [value |-> value, at |-> now] >>]
        /\ faults' = FaultsAfter(outcome)
        /\ remoteCalls' =
              IF outcome = "hit" THEN remoteCalls
              ELSE Append(remoteCalls, Request("get_stock_data", key[1], key[2]))
        /\ lastCall' = << [site |-> site, key |-> key, at |-> now,
                           remote |-> IF outcome = "hit" THEN 0 ELSE 1,
                           value |-> value, before |-> before] >>

---------------------------------------------------------------------------
(* The arithmetic of the script *)

\* Variant: the guard without its length test
InsufficientNoLength(data) ==
    IsEmpty(data) \/ "Close" \notin Columns(data)

\* The guard of lines 21, 75, 148 and 171
Insufficient(data) ==
    IsEmpty(data) \/ "Close" \notin Columns(data) \/ Len(Close(data)) < 2

\* Lines 25-28; <<>> when an index is out of range (IndexError / KeyError)
IndexCard(data) ==
    IF Len(Close(data)) < 2 THEN <<>>
    ELSE LET today_close == Last(Close(data))
             prev_close == Prev(Close(data))
             change == today_close - prev_close
         IN  << [prev_close |-> prev_close, today_close |-> today_close,
                 change |-> change,
                 change_percent |-> Frac(change * 100, prev_close)] >>

\* Line 119, the "Day Change" card
DayChange(data) == Last(Close(data)) - Last(Open(data))

\* Variant: the return measured from the first open
PeriodReturnFromOpen(data) ==
    Frac((Last(Close(data)) - First(Open(data))) * 100, First(Open(data)))

\* Line 123, the "Period Return" card
PeriodReturn(data) ==
    Frac((Last(Close(data)) - First(Close(data))) * 100, First(Close(data)))

\* Lines 116-124; <<>> when a column is missing or has no record
KeyMetrics(data) ==
    IF Len(Close(data)) < 1 \/ Len(Open(data)) < 1 THEN <<>>
    ELSE << [current_price |-> Last(Close(data)),
             day_change |-> DayChange(data),
             price_change |-> PeriodReturn(data)] >>

\* Series.rolling(window).mean() over records lo..hi, entered with the
\* running sum of the window that ends before lo: each record enters the
\* sum, the record leaving the window is dropped from it, and there is no
\* value until the window is full.  The run is split in halves, the second
\* entered with the value of the sum the first ends with.
RECURSIVE Roll(_, _, _, _, _)
Roll(x, window, lo, hi, sum) ==
    IF lo = hi
    THEN LET s == sum + x[lo] - (IF lo > window THEN x[lo - window] ELSE 0)
         IN  [sum |-> s,
              out |-> << IF lo >= window THEN Frac(s, window) ELSE NaN >>]
    ELSE LET mid == (lo + hi) \div 2
             left == Roll(x, window, lo, mid, sum)
             right == CHOOSE r \in { Roll(x, window, mid + 1, hi, carried) :
                                         carried \in {left.sum} } : TRUE
         IN  [sum |-> right.sum, out |-> left.out \o right.out]

\* Variant: rolling(window, min_periods=1), the mean of a window not yet full
RECURSIVE PartialSum(_, _, _)
PartialSum(x, lo, hi) ==
    IF lo > hi THEN 0
    ELSE IF lo = hi THEN x[lo]
    ELSE PartialSum(x, lo, (lo + hi) \div 2)
            + PartialSum(x, (lo + hi) \div 2 + 1, hi)

RollingMinPeriods1(x, window) ==
    [k \in 1..Len(x) |->
        IF k >= window THEN Frac(PartialSum(x, k - window + 1, k), window)
        ELSE Frac(PartialSum(x, 1, k), k)]

Rolling(x, window) ==
    IF Len(x) = 0 THEN <<>> ELSE Roll(x, window, 1, Len(x), 0).out

\* f'MA{period}'
MAName(window) == "MA" \o ToString(window)

\* Lines 128-130
RECURSIVE AddMA(_, _)
AddMA(data, k) ==
    IF k > Len(ma_periods) THEN data
    ELSE AddMA(WithColumn(data, MAName(ma_periods[k]),
                          Rolling(Close(data), ma_periods[k])), k + 1)

AddMovingAverages(data) == AddMA(data, 1)

\* Variant: scaled by the last close instead of the first
NormalizeByLast(close) ==
    [k \in 1..Len(close) |-> Frac(close[k] * 100, Last(close))]

\* close / close.iloc[0] * 100 (lines 151, 152, 173)
Normalize(close) ==
    [k \in 1..Len(close) |-> Frac(close[k] * 100, First(close))]

\* Line 174: one trace of the top-5 figure
Trace(symbol, data) ==
    [name |-> symbol, x |-> data.index, y |-> Normalize(Close(data))]

---------------------------------------------------------------------------
(* The Q&A lookup of lines 191-201 *)

\* str.lower() on one character
LowerChar(c) == IF c = "A" THEN "a" ELSE IF c = "B" THEN "b" ELSE c

Lower(s) == [k \in 1..Len(s) |-> LowerChar(s[k])]

\* Python's `needle in haystack` on strings
Contains(haystack, needle) ==
    \E k \in 0..(Len(haystack) - Len(needle)) :
        SubSeq(haystack, k + 1, k + Len(needle)) = needle

\* f"{key}: {value}"
Format(key, value) == key \o <<":", " ">> \o value

\* Variant: the loop without its break, so the last matching key wins
RECURSIVE SearchNoBreak(_, _, _)
SearchNoBreak(info, question, k) ==
    IF k > Len(info) THEN <<>>
    ELSE LET later == SearchNoBreak(info, question, k + 1)
         IN  IF later # <<>> THEN later
             ELSE IF Contains(Lower(info[k][1]), Lower(question))
                  THEN Format(info[k][1], info[k][2])
                  ELSE <<>>

\* The for loop with its break: the first key, in order, that matches
RECURSIVE Search(_, _, _)
Search(info, question, k) ==
    IF k > Len(info) THEN <<>>
    ELSE IF Contains(Lower(info[k][1]), Lower(question))
         THEN Format(info[k][1], info[k][2])
         ELSE Search(info, question, k + 1)

---------------------------------------------------------------------------
(* Messages of st.error *)

NseError ==
    "NSE data could not be loaded or is insufficient. Please try again later."

StockError(symbol) ==
    "Data for " \o symbol
        \o " could not be loaded or is insufficient. Please try again later."

NiftyError ==
    "NIFTY 50 data could not be loaded or is insufficient. Please try again later."

---------------------------------------------------------------------------
(* The state after the process has started: nothing cached, no pass run *)

NoLocals ==
    /\ nse_data = EmptyFrame /\ card = <<>>
    /\ selected_stock = "" /\ time_period = ""
    /\ df = EmptyFrame /\ stock_info = <<>> /\ metrics = <<>>
    /\ nifty_data = EmptyFrame
    /\ normalized_stock = <<>> /\ normalized_nifty = <<>>
    /\ i = 0 /\ fig_top5 = <<>>
    /\ user_question = <<>> /\ answer = <<>> /\ sidebar = ""
    /\ error = ""
    /\ remoteCalls = <<>> /\ lastCall = <<>>
    /\ received = <<>> /\ computed = <<>>

\* The same, for the locals of a pass that starts
FreshLocals ==
    /\ nse_data' = EmptyFrame /\ card' = <<>>
    /\ selected_stock' = "" /\ time_period' = ""
    /\ df' = EmptyFrame /\ stock_info' = <<>> /\ metrics' = <<>>
    /\ nifty_data' = EmptyFrame
    /\ normalized_stock' = <<>> /\ normalized_nifty' = <<>>
    /\ i' = 0 /\ fig_top5' = <<>>
    /\ user_question' = <<>> /\ answer' = <<>> /\ sidebar' = ""
    /\ error' = ""
    /\ remoteCalls' = <<>> /\ lastCall' = <<>>
    /\ received' = <<>> /\ computed' = <<>>

Init ==
    /\ now = 0
    /\ nseCache = <<>>
    /\ stockCache = [key \in Keys |-> <<>>]
    /\ origin = [key \in Keys |-> <<>>]
    /\ pc = "idle"
    /\ passes = 0
    /\ faults = 0
    /\ prevPass = <<>>
    /\ NoLocals

---------------------------------------------------------------------------
(* A pass: the script from line 1 to its end, st.stop() or an exception.   *)
(* It is cut at its blocking remote requests.  A pass lasts seconds and    *)
(* the time-to-live an hour, so the clock moves between passes only.       *)

Seen(site, data) == [site |-> site, data |-> data]

\* The oldest of the memo entries a finished pass has read
OldestEntry ==
    LET stamps == { nseCache[1].ts }
                  \cup { stockCache[<<selected_stock, time_period>>][1].ts }
                  \cup { stockCache[<<top5_stocks[k], time_period>>][1].ts :
                            k \in 1..Len(top5_stocks) }
    IN  CHOOSE t \in stamps : \A u \in stamps : t <= u

\* The first pass runs as the process starts; a later one half a TTL or a
\* whole TTL after the pass before it
Elapsed == IF pc = "idle" THEN { 0 } ELSE { TickLen, TTL }

\* A user interaction, some time after the last one, re-runs the script
\* with fresh locals
StartPass ==
    /\ pc \in {"idle", "done", "stopped", "crashed"}
    /\ passes < MaxPasses
    /\ \E elapsed \in Elapsed :
          /\ now + elapsed <= MaxTicks * TickLen
          /\ now' = now + elapsed
    /\ passes' = passes + 1
    /\ pc' = "nse"
    /\ FreshLocals
    /\ prevPass' = IF pc = "done"
                   THEN << [stock |-> selected_stock, period |-> time_period,
                            oldest |-> OldestEntry] >>
                   ELSE prevPass
    /\ UNCHANGED <<faults, cacheVars>>

\* Lines 15-46: the index overview
NseStep ==
    /\ pc = "nse"
    /\ \E outcome \in NseOutcomes :
          LET data == NseValue(outcome)
          IN  /\ nseCache' = IF outcome = "hit" THEN nseCache
                             ELSE Memoize(data, now)
              /\ faults' = FaultsAfter(outcome)
              /\ remoteCalls' =
                    IF outcome = "hit" THEN remoteCalls
                    ELSE Append(remoteCalls, Request("get_nse_data", NSEI, "2d"))
              /\ nse_data' = data
              /\ received' = Append(received, Seen("nse", data))
              /\ IF Insufficient(data)
                 THEN /\ error' = NseError
                      /\ pc' = "stopped"
                      /\ UNCHANGED <<card, computed>>
                 ELSE /\ computed' = Append(computed, Seen("nse", data))
                      /\ card' = IndexCard(data)
                      /\ pc' = IF IndexCard(data) = <<>> THEN "crashed"
                               ELSE "stock"
                      /\ UNCHANGED error
    /\ UNCHANGED <<now, passes, stockCache, origin, inputVars, stockVars,
                   niftyVars, top5Vars, qaVars, lastCall, prevPass>>

\* Lines 57-143: the selection, the selected stock's history, its key
\* metrics and its moving averages
StockStep ==
    /\ pc = "stock"
    /\ \E choice \in Selections :
       \E outcome \in StockOutcomes(choice) :
          LET symbol == choice[1]
              period == choice[2]
              value == StockValue(choice, outcome)
              data == value.hist
          IN  /\ selected_stock' = symbol
              /\ time_period' = period
              /\ GetStockData("selected", <<symbol, period>>, outcome)
              /\ stock_info' = value.info
              /\ received' = Append(received, Seen("stock", data))
              /\ IF Insufficient(data)
                 THEN /\ error' = StockError(symbol)
                      /\ pc' = "stopped"
                      /\ df' = data
                      /\ UNCHANGED <<metrics, computed>>
                 ELSE /\ computed' = Append(computed, Seen("stock", data))
                      /\ metrics' = KeyMetrics(data)
                      /\ IF KeyMetrics(data) = <<>>
                         THEN pc' = "crashed" /\ df' = data
                         ELSE pc' = "nifty" /\ df' = AddMovingAverages(data)
                      /\ UNCHANGED error
    /\ UNCHANGED <<now, passes, nseCache, user_question, nseVars, niftyVars,
                   top5Vars, qaVars, prevPass>>

\* Lines 145-163: the comparison with NIFTY 50, fetched without a memo
NiftyStep ==
    /\ pc = "nifty"
    /\ \E outcome \in RemoteOutcomes :
          LET data == RemoteAnswer(NSEI, time_period, now, outcome)
          IN  /\ faults' = FaultsAfter(outcome)
              /\ remoteCalls' =
                    Append(remoteCalls, Request("download", NSEI, time_period))
              /\ nifty_data' = data
              /\ received' = Append(received, Seen("nifty", data))
              /\ IF Insufficient(data)
                 THEN /\ error' = NiftyError
                      /\ pc' = "stopped"
                      /\ UNCHANGED <<normalized_stock, normalized_nifty,
                                     computed, i>>
                 ELSE /\ computed' = computed \o << Seen("normalized_stock", df),
                                                    Seen("nifty", data) >>
                      /\ normalized_stock' = Normalize(Close(df))
                      /\ normalized_nifty' = Normalize(Close(data))
                      /\ IF Close(df) = <<>> \/ Close(data) = <<>>
                         THEN pc' = "crashed" /\ i' = i
                         ELSE pc' = "top5" /\ i' = 1
                      /\ UNCHANGED error
    /\ UNCHANGED <<now, passes, cacheVars, inputVars, nseVars, stockVars,
                   fig_top5, qaVars, lastCall, prevPass>>

\* Variant: the loop without its continue
Top5FigureNoSkip(fig, symbol, stock_df) ==
    Append(fig, Trace(symbol, stock_df))

\* Lines 171-174: the figure after one turn of the loop; an unusable
\* history is passed over
Top5Figure(fig, symbol, stock_df) ==
    IF Insufficient(stock_df) THEN fig
    ELSE Append(fig, Trace(symbol, stock_df))

\* Lines 169-174: one turn of the top-5 loop
Top5Step ==
    /\ pc = "top5"
    /\ i <= Len(top5_stocks)
    /\ LET symbol == top5_stocks[i]
           key == <<symbol, time_period>>
       IN  \E outcome \in StockOutcomes(key) :
              LET stock_df == StockValue(key, outcome).hist
              IN  /\ GetStockData("top5", key, outcome)
                  /\ received' = Append(received, Seen("top5", stock_df))
                  /\ fig_top5' = Top5Figure(fig_top5, symbol, stock_df)
                  /\ computed' =
                        IF Top5Figure(fig_top5, symbol, stock_df) = fig_top5
                        THEN computed
                        ELSE Append(computed, Seen("top5", stock_df))
                  /\ IF ~Insufficient(stock_df) /\ Close(stock_df) = <<>>
                     THEN pc' = "crashed" /\ i' = i
                     ELSE /\ i' = i + 1
                          /\ pc' = IF i = Len(top5_stocks) THEN "qa" ELSE "top5"
    /\ UNCHANGED <<now, passes, nseCache, inputVars, nseVars, stockVars,
                   niftyVars, qaVars, error, prevPass>>

\* Lines 175-201: the top-5 figure, the footer and the Q&A lookup
QAStep ==
    /\ pc = "qa"
    /\ \E question \in Questions :
          /\ user_question' = question
          /\ answer' = IF question # <<>> THEN Search(stock_info, question, 1)
                       ELSE <<>>
          /\ sidebar' = IF question = <<>> THEN ""
                        ELSE IF Search(stock_info, question, 1) # <<>>
                             THEN "success" ELSE "info"
    /\ pc' = "done"
    /\ UNCHANGED <<now, passes, faults, error, cacheVars, selected_stock,
                   time_period, nseVars, stockVars, niftyVars, top5Vars,
                   histVars>>

Next ==
    \/ StartPass
    \/ NseStep
    \/ StockStep
    \/ NiftyStep
    \/ Top5Step
    \/ QAStep

Spec == Init /\ [][Next]_vars

---------------------------------------------------------------------------
(***************************************************************************)
(* The metrics on their own: a first pass that has come through the guard  *)
(* of line 75 with a history as long as the windows of ma_periods          *)
(***************************************************************************)

\* Lengths around each window of ma_periods
Lengths == { 2, 3, 19, 20, 21, 49, 50, 51, 199, 200, 201 }

LongHistory(n, seed) ==
    [index |-> [k \in 1..n |-> k],
     col   |-> [c \in {"Open", "Close"} |->
                  [k \in 1..n |->
                      100 + ((k * k * (seed + 1) + 3 * seed * k) % 17)
                          + (IF c = "Open" THEN (k + seed) % 3 ELSE 0)]]]

LongHistories == { LongHistory(n, seed) : n \in Lengths, seed \in 0..MaxSeed }

MetricsInit ==
    LET nse == History(NSEI, "2d", 0)
        choice == <<top_stocks[1], periods[1]>>
    IN  \E hist \in LongHistories :
          LET value == [hist |-> hist, info |-> Info(choice[1])]
          IN  /\ now = 0
              /\ passes = 1
              /\ faults = 0
              /\ prevPass = <<>>
              /\ nseCache = Memoize(nse, 0)
              /\ nse_data = nse
              /\ card = IndexCard(nse)
              /\ selected_stock = choice[1]
              /\ time_period = choice[2]
              /\ stockCache = [key \in Keys |-> IF key = choice
                                                THEN Memoize(value, 0) ELSE <<>>]
              /\ origin = [key \in Keys |->
                             IF key = choice
                             THEN << [value |-> value, at |-> 0] >> ELSE <<>>]
              /\ df = hist
              /\ stock_info = value.info
              /\ metrics = <<>>
              /\ nifty_data = EmptyFrame
              /\ normalized_stock = <<>> /\ normalized_nifty = <<>>
              /\ i = 0 /\ fig_top5 = <<>>
              /\ user_question = <<>> /\ answer = <<>> /\ sidebar = ""
              /\ error = ""
              /\ remoteCalls = << Request("get_nse_data", NSEI, "2d"),
                                  Request("get_stock_data", choice[1], choice[2]) >>
              /\ lastCall = << [site |-> "selected", key |-> choice, at |-> 0,
                                remote |-> 1, value |-> value, before |-> <<>>] >>
              /\ received = << Seen("nse", nse), Seen("stock", hist) >>
              /\ computed = << Seen("nse", nse), Seen("stock", hist) >>
              /\ pc = "metrics"

\* Lines 112-143 on df
TechnicalAnalysis ==
    /\ pc = "metrics"
    /\ metrics' = KeyMetrics(df)
    /\ df' = AddMovingAverages(df)
    /\ pc' = "nifty"
    /\ UNCHANGED <<now, passes, faults, error, cacheVars, inputVars, nseVars,
                   stock_info, niftyVars, top5Vars, qaVars, histVars>>

MetricsNext ==
    \/ TechnicalAnalysis
    \/ NiftyStep

SpecMetrics == MetricsInit /\ [][MetricsNext]_vars

---------------------------------------------------------------------------
(* Vocabulary of the properties *)

\* A series the script may do arithmetic on: it has records, a Close column
\* and at least two closes
Usable(data) ==
    /\ Len(data.index) > 0
    /\ "Close" \in DOMAIN data.col
    /\ Len(data.col["Close"]) >= 2

RECURSIVE SumRange(_, _, _)
SumRange(x, from, to) ==
    IF from > to THEN 0
    ELSE IF from = to THEN x[from]
    ELSE LET mid == (from + to) \div 2
         IN  SumRange(x, from, mid) + SumRange(x, mid + 1, to)

\* key, lower-cased, has question, lower-cased, at some position
Matches(key, question) ==
    \E start \in 1..(Len(key) + 1) :
        /\ start + Len(question) - 1 <= Len(key)
        /\ \A j \in 1..Len(question) :
              LowerChar(key[start + j - 1]) = LowerChar(question[j])

Scaled(data, k) ==
    [index |-> data.index,
     col   |-> [c \in {"Open", "Close"} |->
                  [j \in 1..Len(data.col[c]) |-> k * data.col[c][j]]]]

\* The top-5 series the pass has received so far, in loop order
Top5Received ==
    [k \in 1..(Len(received) - 3) |-> received[k + 3].data]

RECURSIVE UsableNames(_)
UsableNames(k) ==
    IF k = 0 THEN <<>>
    ELSE IF Usable(Top5Received[k])
         THEN Append(UsableNames(k - 1), top5_stocks[k])
         ELSE UsableNames(k - 1)

---------------------------------------------------------------------------
(* Properties *)

\* C1: a get_stock_data call made less than TTL after the remote fetch that
\* filled its key's entry issues no request and returns exactly what that
\* fetch returned (without the MA columns a pass added to its own copy); a
\* call made once the TTL has run out issues one request and replaces the
\* entry.
C1_ServedFromMemoWithinTTL ==
    \A n \in 1..Len(lastCall) :
        LET c == lastCall[n]
        IN  c.before # <<>> =>
              IF c.at - c.before[1].at < TTL
              THEN c.remote = 0 /\ c.value = c.before[1].value
              ELSE /\ c.remote = 1
                   /\ stockCache[c.key] = << [value |-> c.value, ts |-> c.at] >>

\* A second pass reads, within the TTL, the key whose history an earlier
\* pass extended with moving averages, and gets it without them
W1_HitAfterMovingAverages ==
    /\ prevPass # <<>>
    /\ lastCall # <<>>
    /\ lastCall[1].site = "selected"
    /\ lastCall[1].key = <<prevPass[1].stock, prevPass[1].period>>
    /\ lastCall[1].remote = 0
    /\ now > lastCall[1].before[1].at
    /\ Columns(lastCall[1].value.hist) = {"Open", "Close"}
    /\ "MA20" \in Columns(df)

\* C2 as stated: whichever series of a pass is unusable, the pass halts
\* there with an error and nothing later runs.
C2_AnyUnusableSeriesHalts ==
    \A k \in 1..Len(received) :
        ~Usable(received[k].data) =>
            k = Len(received) /\ pc = "stopped" /\ error # ""

\* C2 amended: an unusable index, selected-stock or NIFTY series halts the
\* pass there with its error and nothing of a later step is shown; an
\* unusable top-5 series is passed over without an error, and the figure
\* holds the traces of the usable top-5 series, in order.
C2_HaltsExceptTop5 ==
    /\ \A k \in 1..Len(received) :
          ~Usable(received[k].data) =>
             CASE received[k].site = "nse" ->
                    /\ k = Len(received) /\ pc = "stopped" /\ error = NseError
                    /\ card = <<>> /\ selected_stock = "" /\ metrics = <<>>
                    /\ normalized_stock = <<>> /\ fig_top5 = <<>> /\ sidebar = ""
               [] received[k].site = "stock" ->
                    /\ k = Len(received) /\ pc = "stopped"
                    /\ error = StockError(selected_stock)
                    /\ metrics = <<>> /\ "MA20" \notin Columns(df)
                    /\ normalized_stock = <<>> /\ fig_top5 = <<>> /\ sidebar = ""
               [] received[k].site = "nifty" ->
                    /\ k = Len(received) /\ pc = "stopped" /\ error = NiftyError
                    /\ normalized_stock = <<>> /\ normalized_nifty = <<>>
                    /\ fig_top5 = <<>> /\ sidebar = ""
               [] OTHER ->
                    /\ pc \in {"top5", "qa", "done"} /\ error = ""
    /\ Len(received) > 3 =>
          [k \in 1..Len(fig_top5) |-> fig_top5[k].name]
             = UsableNames(Len(received) - 3)

\* A finished pass whose figure lacks the one top-5 stock that came back
\* unusable
W2_Top5SeriesSkipped ==
    /\ pc = "done"
    /\ \E k \in 1..Len(Top5Received) : ~Usable(Top5Received[k])
    /\ Len(fig_top5) = Len(top5_stocks) - 1
    /\ error = ""

\* C3 as stated: a finished pass that repeats the selection of an earlier
\* finished pass, while every entry that pass read is younger than the
\* TTL, issues no remote request.
C3_RepeatedPassIssuesNoRequest ==
    ( /\ pc = "done"
      /\ prevPass # <<>>
      /\ prevPass[1].stock = selected_stock
      /\ prevPass[1].period = time_period
      /\ now - prevPass[1].oldest < TTL )
    => remoteCalls = <<>>

\* C4 as stated: the index delta and the selected stock's Day Change are
\* both the last close minus the close before it, the percentage being
\* that difference over the close before it, times 100.
C4_DayChangeIsCloseOverPreviousClose ==
    /\ card # <<>> =>
          /\ card[1].change = Last(Close(nse_data)) - Prev(Close(nse_data))
          /\ FracEq(card[1].change_percent,
                    Frac((Last(Close(nse_data)) - Prev(Close(nse_data))) * 100,
                         Prev(Close(nse_data))))
    /\ metrics # <<>> =>
          metrics[1].day_change = Last(Close(df)) - Prev(Close(df))

\* C5: each MAw column, w in {20, 50, 200}, is as long as the series, has
\* no value before position w (counting from 1) and from there on holds the
\* mean of the w closes ending at its position.
C5_MovingAverages ==
    metrics # <<>> =>
        \A n \in 1..Len(ma_periods) :
            LET w == ma_periods[n]
                ma == Column(df, MAName(w))
                close == Close(df)
            IN  /\ MAName(w) \in Columns(df)
                /\ Len(ma) = Len(df.index)
                /\ \A k \in 1..Len(ma) :
                      IF k < w THEN ma[k] = NaN
                      ELSE FracEq(ma[k], Frac(SumRange(close, k - w + 1, k), w))

\* A series longer than the longest window, with its three columns
W5_AllWindowsFull ==
    /\ metrics # <<>>
    /\ normalized_stock # <<>>
    /\ Len(df.index) > ma_periods[3]
    /\ Column(df, "MA200")[Len(df.index)] # NaN
    /\ Column(df, "MA20")[19] = NaN
    /\ Column(df, "MA20")[20] # NaN

\* C6: the Period Return shown is (last close - first close) / first close
\* * 100 on the raw closes of the fetched window, and scaling every price
\* by the same positive k leaves it as it is.
C6_PeriodReturn ==
    metrics # <<>> =>
        /\ FracEq(metrics[1].price_change,
                  Frac((Last(Close(df)) - First(Close(df))) * 100,
                       First(Close(df))))
        /\ \A k \in 1..MaxScale :
              FracEq(PeriodReturn(Scaled(df, k)), metrics[1].price_change)

\* A pass that shows a non-zero period return
W6_PeriodReturnShown ==
    /\ pc = "done"
    /\ metrics # <<>>
    /\ metrics[1].price_change.num # 0

NormalizedFrom(values, data) ==
    /\ Len(values) = Len(data.index)
    /\ \A k \in 1..Len(values) :
          FracEq(values[k], Frac(Close(data)[k] * 100, Close(data)[1]))
    /\ FracEq(values[1], Frac(100, 1))

\* C7: every normalized series (selected stock, NIFTY 50, each plotted
\* top-5 stock) is as long as its input and in its date order, element k
\* being close[k] / close[first] * 100, so the first element is 100.
C7_Normalized ==
    /\ normalized_stock # <<>> => NormalizedFrom(normalized_stock, df)
    /\ normalized_nifty # <<>> => NormalizedFrom(normalized_nifty, nifty_data)
    /\ \A k \in 1..Len(fig_top5) :
          LET data == stockCache[<<fig_top5[k].name, time_period>>][1].value.hist
          IN  /\ fig_top5[k].x = data.index
              /\ NormalizedFrom(fig_top5[k].y, data)

\* A finished pass with all seven normalized series
W7_AllSeriesNormalized ==
    /\ pc = "done"
    /\ normalized_stock # <<>> /\ normalized_nifty # <<>>
    /\ Len(fig_top5) = Len(top5_stocks)
    /\ \E k \in 2..Len(normalized_stock) : ~FracEq(normalized_stock[k], Frac(100, 1))

\* C8: for a non-empty question the sidebar shows "key: value" of the first
\* key, in insertion order, that contains the question, both lower-cased;
\* later keys and all values play no part; the not-found message is shown
\* exactly when no key matches.
C8_FirstMatchingKey ==
    (pc = "done" /\ user_question # <<>>) =>
        LET hits == { k \in 1..Len(stock_info) :
                         Matches(stock_info[k][1], user_question) }
        IN  IF hits = {}
            THEN sidebar = "info" /\ answer = <<>>
            ELSE LET first == CHOOSE k \in hits : \A j \in hits : k <= j
                 IN  /\ sidebar = "success"
                     /\ answer = stock_info[first][1] \o <<":", " ">>
                                    \o stock_info[first][2]

\* A question that several keys contain, in another case than typed
W8_SeveralKeysMatch ==
    /\ pc = "done"
    /\ user_question = <<"a", "b">>
    /\ Cardinality({ k \in 1..Len(stock_info) :
                        Matches(stock_info[k][1], user_question) }) > 1
    /\ sidebar = "success"
    /\ answer = <<"A", "b", ":", " ", "b", "b">>

\* C9: arithmetic is done only on series that passed the guard, and a
\* pass whose index series failed the guard reaches neither the
\* selected-stock fetch nor anything after it.
C9_ArithmeticOnlyAfterGuard ==
    /\ \A k \in 1..Len(computed) : Usable(computed[k].data)
    /\ (received # <<>> /\ ~Usable(received[1].data)) =>
          /\ Len(received) = 1 /\ computed = <<>>
          /\ selected_stock = "" /\ lastCall = <<>> /\ card = <<>>

\* A pass stopped at the index guard after an earlier pass did all its
\* arithmetic
W9_StoppedAtIndexGuard ==
    /\ prevPass # <<>>
    /\ pc = "stopped"
    /\ received # <<>> /\ ~Usable(received[1].data)

\* C10: an unusable result of get_stock_data is memoized like any other;
\* within the TTL a pass selecting that key shows the data-unavailable
\* error again without a request, and the request is repeated only once
\* the TTL has run out.
C10_UnusableResultMemoized ==
    /\ \A key \in Keys :
          origin[key] # <<>> =>
             stockCache[key] = << [value |-> origin[key][1].value,
                                   ts |-> origin[key][1].at] >>
    /\ \A n \in 1..Len(lastCall) :
          LET c == lastCall[n]
          IN  (c.site = "selected" /\ c.before # <<>>
                  /\ ~Usable(c.before[1].value.hist)) =>
                IF c.at - c.before[1].at < TTL
                THEN /\ c.remote = 0
                     /\ pc = "stopped"
                     /\ error = StockError(c.key[1])
                ELSE c.remote = 1

\* A second pass, within the TTL, stopped by the memoized unusable result
W10_ErrorShownFromMemo ==
    /\ lastCall # <<>>
    /\ lastCall[1].site = "selected"
    /\ lastCall[1].before # <<>>
    /\ ~Usable(lastCall[1].before[1].value.hist)
    /\ lastCall[1].remote = 0
    /\ now > lastCall[1].before[1].at
    /\ pc = "stopped"

===========================================================================
